---- MODULE Spec2Model ----
(***************************************************************************)
(* The change-aggregation engine of looping_mechanism.py: the watcher's    *)
(* event handlers, the per-path debounce timers, the incremental update    *)
(* (update_summary) and the rebuild (generate_summary), over the three     *)
(* shared resources: the monitored tree, the ledger file SUMMARYPRO.txt    *)
(* and the fingerprint index summary_hashes.json.                          *)
(*                                                                         *)
(* Text is modelled as sequences of tokens: a token is an indivisible      *)
(* piece of text (a name, "|", ".", "/").  Cell values never contain the   *)
(* delimiter or a line break.                                              *)
(***************************************************************************)
EXTENDS Integers, Sequences, FiniteSets, TLC

(***************************************************************************)
(* Bounds of the model.                                                    *)
(***************************************************************************)
MaxTimers == 2        \* Timer objects (modification notifications that get one)
EditOps == 2         \* modification notifications in SpecEdit
EditEnv == 1         \* external writes and deletions in SpecEdit
SerialOps == 3        \* notifications and API calls in SpecSerial
SerialEnv == 1        \* external writes, deletions and failing writes in SpecSerial
ApiOps == 2           \* notifications and API calls in SpecApi
ApiEnv == 1           \* external deletions in SpecApi
FairOps == 2          \* modification notifications in SpecFair
CreateOps == 3        \* notifications in SpecCreate
FilterOps == 3        \* notifications in SpecFilter
StartOps == 2         \* notifications in SpecStartup

(***************************************************************************)
(* Program constants.                                                      *)
(***************************************************************************)
DebounceDelay == 2   \* threading.Timer(2.0, ...)
SettleDelay == 2     \* time.sleep(2) in on_created

(***************************************************************************)
(* The monitored tree.  A path is its text; the three documents are        *)
(*   d1/a.xlsx, d1/ab.xlsx (its identifier extends the first's) and        *)
(*   d2/a.xlsx (same file name as the first, other directory).             *)
(***************************************************************************)
PathA == <<"d1", "/", "a", ".", "xlsx">>
PathAB == <<"d1", "/", "a", "b", ".", "xlsx">>
PathA2 == <<"d2", "/", "a", ".", "xlsx">>
Paths == {PathA, PathAB, PathA2}

\* os.walk order of the tree (fixed for a given tree)
WalkOrder == <<PathA, PathAB, PathA2>>

Absent == "absent"               \* the path does not exist
\* the bytes a document may hold: two workbooks and a file that is none
Contents == {"corrupt", "rabat", "sale"}

RECURSIVE LastIndexOf(_, _, _)
LastIndexOf(s, tok, i) ==
  IF i = 0 THEN 0 ELSE IF s[i] = tok THEN i ELSE LastIndexOf(s, tok, i - 1)

RECURSIVE FirstIndexOf(_, _, _)
FirstIndexOf(s, tok, i) ==
  IF i > Len(s) THEN 0 ELSE IF s[i] = tok THEN i ELSE FirstIndexOf(s, tok, i + 1)

\* os.path.basename
BaseName(path) == SubSeq(path, LastIndexOf(path, "/", Len(path)) + 1, Len(path))

\* str.split('.')[0]
SplitDotFirst(s) ==
  LET i == FirstIndexOf(s, ".", 1)
  IN  IF i = 0 THEN s ELSE SubSeq(s, 1, i - 1)

\* data['reference']
Reference(path) == SplitDotFirst(BaseName(path))

\* str.startswith
StartsWith(s, prefix) ==
  /\ Len(prefix) <= Len(s)
  /\ SubSeq(s, 1, Len(prefix)) = prefix

(***************************************************************************)
(* Extraction and digest.                                                  *)
(***************************************************************************)
\* extract_excel_data returned {} (bytes: what the file held, for the
\* properties)
NoData == [ok |-> FALSE, reference |-> <<>>, fields |-> "", bytes |-> Absent]

\* the eleven fields after the reference, formatted and joined by '|'
FieldsText(c) ==
  IF c = "rabat" THEN "Rabat|0.0|0.0|0.0|0.0|0.0|0.0|0.0|0.0|0.0|PAS ENCORE"
                 ELSE "Sale|1.0|0.0|0.0|0.0|0.0|0.0|0.0|0.0|0.0|PAYE"

\* extract_excel_data: {} when the path is missing or is not a workbook,
\* else the record (its reference and its other fields)
\* bytes load_workbook raises on: no file, or not a workbook
BadBytes(c) == c = Absent \/ c = "corrupt"

\* a variant that returns a record of default values when the workbook
\* cannot be read
ExtractDefaultsOnError(path, c) ==
  [ok |-> TRUE, reference |-> Reference(path),
   fields |-> IF BadBytes(c) THEN "N/A|0.0|0.0|0.0|0.0|0.0|0.0|0.0|0.0|0.0|PAS ENCORE"
                             ELSE FieldsText(c),
   bytes |-> c]

extract_excel_data(path, c) ==
  IF BadBytes(c)
    THEN [NoData EXCEPT !.bytes = c]
    ELSE [ok |-> TRUE, reference |-> Reference(path), fields |-> FieldsText(c),
          bytes |-> c]

\* hashlib.md5(bytes).hexdigest(), taken to be injective
Md5(c) == <<"md5", c>>

\* new_line (without its line break)
NewLine(data) == data.reference \o <<"|", data.fields>>

header == <<"reference", "|",
  "lieu|TOTAL DES CHARGES NON JUSTIFIEES|main_oeuvre|total_bons|total_fournisseur|tva|ttc|ht|benefice|tva_10|etat_payment">>

(***************************************************************************)
(* Lines 172-186 of update_summary: the upsert over the lines read.        *)
(***************************************************************************)
\* lines 174-175: a table with no header line gets one in front
WithHeader(lines) ==
  IF lines = <<>> \/ ~StartsWith(lines[1], <<"reference">>)
    THEN <<header>> \o lines
    ELSE lines

\* line 180 with the delimiter forgotten
MatchesNoDelimiter(line, reference) == StartsWith(line, reference)

\* line 180: line.startswith(data['reference'] + '|')
Matches(line, reference) == StartsWith(line, reference \o <<"|">>)

\* lines 179-184: the loop over lines[1:]
RECURSIVE ReplaceMatching(_, _, _)
ReplaceMatching(rest, reference, new_line) ==
  IF rest = <<>> THEN <<>>
  ELSE <<IF Matches(Head(rest), reference) THEN new_line ELSE Head(rest)>>
         \o ReplaceMatching(Tail(rest), reference, new_line)

\* lines 172-186: new_lines from the lines read and the extracted data
NewLines(read, data) ==
  LET lines == WithHeader(read)
      updated == \E i \in 2 .. Len(lines) : Matches(lines[i], data.reference)
      replaced == <<lines[1]>>
                    \o ReplaceMatching(Tail(lines), data.reference, NewLine(data))
  IN  IF updated THEN replaced ELSE replaced \o <<NewLine(data)>>

\* What a file opened with 'w' (truncated at open, its offset at 0) holds
\* after `text` is written to it, when `cur` is what the file holds by then
\* (empty unless another writer wrote in between).
Overlay(text, cur) ==
  IF Len(cur) > Len(text) THEN text \o SubSeq(cur, Len(text) + 1, Len(cur)) ELSE text

\* the proper prefixes of a text: what a failed write may leave behind
ProperPrefixes(text) == {SubSeq(text, 1, n) : n \in 0 .. Len(text) - 1}

(***************************************************************************)
(* State.                                                                  *)
(***************************************************************************)
VARIABLES
  docs,                 \* the monitored tree: path -> bytes, or Absent
  ledger,               \* SUMMARY_FILE: [exists, lines]
  hashes,               \* HASH_FILE: [state: "absent" | "empty" | "json", map]
  modification_timers,  \* the debounce table: path -> timer
  timers,               \* the threading.Timer objects, by creation order
  disp,                 \* the watcher's dispatch thread
  run,                  \* each thread's call of update_summary/generate_summary
  budget,               \* what the environment may still do
  serial,               \* TRUE: operations and external writers never overlap
  last,                 \* history: the last call that returned, in a serialized run
  sheet,                \* the worksheet extract_excel_data has loaded, and what it read
  queue                 \* the observer's event queue: notifications not yet dispatched

vars == <<docs, ledger, hashes, modification_timers, timers, disp, run, budget, serial, last, sheet, queue>>

\* The threads that run update_summary or generate_summary: the timer
\* threads 1..MaxTimers, the watcher's dispatch thread and the API process.
Disp == 0
Api == -1
TimerIds == 1 .. MaxTimers
Workers == TimerIds \cup {Disp, Api}

NoPath == <<>>
NoMap == <<>>

NoRun ==
  [pc |-> "idle", op |-> "none", file_path |-> NoPath, data |-> NoData,
   lines |-> <<>>, current_hash |-> <<>>, hashes |-> NoMap,
   excel_files |-> <<>>, summary_lines |-> <<>>, hash_dict |-> NoMap,
   wroteLedger |-> FALSE, wroteIndex |-> FALSE, error |-> FALSE]

NoTimer ==
  [st |-> "unused", path |-> NoPath, rem |-> 0, burst |-> 0,
   superseded |-> FALSE, served |-> 0]

IdleDisp == [pc |-> "idle", path |-> NoPath, rem |-> 0]

\* a mapping with one entry set (hashes[file_path] = current_hash)
SetEntry(map, key, value) ==
  [k \in (DOMAIN map) \cup {key} |-> IF k = key THEN value ELSE map[k]]

\* del modification_timers[file_path]
DelEntry(map, key) == [k \in (DOMAIN map) \ {key} |-> map[k]]

\* no worksheet is loaded
NoRead == [field |-> "none", cell |-> <<>>, value |-> "None", reference |-> <<>>]
NoSheet == [ws |-> [cells |-> <<>>, merged |-> {}], got |-> NoRead]

\* history: the stores as a call of update_summary that wrote both left them
NoLast == [valid |-> FALSE, file_path |-> NoPath, bytes |-> Absent,
           ledger |-> <<>>, hashes |-> NoMap]

\* the history after the call r returned: a successful update_summary is
\* remembered, a call that changed nothing leaves the history as it is, any
\* other call clears it
LastAfter(r) ==
  IF ~serial THEN last
  ELSE IF r.op = "update" /\ r.wroteLedger /\ r.wroteIndex
    THEN [valid |-> TRUE, file_path |-> r.file_path, bytes |-> r.data.bytes,
          ledger |-> ledger.lines, hashes |-> hashes.map]
  ELSE IF r.op = "update" /\ ~r.wroteLedger /\ ~r.error
    THEN last
  ELSE NoLast

\* no call of update_summary or generate_summary is in progress
NoneRunning == \A w \in Workers : run[w].pc \in {"idle", "done"}

\* In a serialized run an operation or an external write starts only when
\* no operation is in progress.
MayStart == serial => NoneRunning

(***************************************************************************)
(* update_summary(file_path), lines 148-209, as run by thread w.           *)
(***************************************************************************)
StartUpdate(path) == [NoRun EXCEPT !.pc = "u_extract", !.op = "update", !.file_path = path]

\* lines 154-156: extract; return when there is no data
UExtract(w) ==
  /\ run[w].pc = "u_extract"
  /\ LET data == extract_excel_data(run[w].file_path, docs[run[w].file_path])
     IN  run' = [run EXCEPT ![w].data = data,
                            ![w].pc = IF data.ok THEN "u_read" ELSE "ret"]
  /\ UNCHANGED <<docs, ledger, hashes, modification_timers, timers, disp, budget, serial, last, sheet, queue>>

\* lines 166-170: read the ledger
URead(w) ==
  /\ run[w].pc = "u_read"
  /\ run' = [run EXCEPT ![w].lines = IF ledger.exists THEN ledger.lines ELSE <<>>,
                        ![w].pc = "u_open"]
  /\ UNCHANGED <<docs, ledger, hashes, modification_timers, timers, disp, budget, serial, last, sheet, queue>>

\* line 188: open(SUMMARY_FILE, 'w') truncates the file
UOpen(w) ==
  /\ run[w].pc = "u_open"
  /\ ledger' = [exists |-> TRUE, lines |-> <<>>]
  /\ run' = [run EXCEPT ![w].pc = "u_write"]
  /\ UNCHANGED <<docs, hashes, modification_timers, timers, disp, budget, serial, last, sheet, queue>>

\* line 189: writelines(new_lines), flushed when the file is closed
UWrite(w) ==
  /\ run[w].pc = "u_write"
  /\ ledger' = [exists |-> TRUE,
                lines |-> Overlay(NewLines(run[w].lines, run[w].data), ledger.lines)]
  /\ run' = [run EXCEPT ![w].pc = "u_hash", ![w].wroteLedger = TRUE]
  /\ UNCHANGED <<docs, hashes, modification_timers, timers, disp, budget, serial, last, sheet, queue>>

\* line 189 raising (an I/O or encoding error): part of the text is left,
\* and the handler of line 208 logs the error
UWriteFail(w) ==
  /\ run[w].pc = "u_write"
  /\ budget.env > 0
  /\ \E part \in ProperPrefixes(NewLines(run[w].lines, run[w].data)) :
       ledger' = [exists |-> TRUE, lines |-> Overlay(part, ledger.lines)]
  /\ run' = [run EXCEPT ![w].pc = "ret", ![w].error = TRUE]
  /\ budget' = [budget EXCEPT !.env = @ - 1]
  /\ UNCHANGED <<docs, hashes, modification_timers, timers, disp, serial, last, sheet, queue>>

\* line 192: get_excel_hash reads the document again; a missing file raises
UHash(w) ==
  /\ run[w].pc = "u_hash"
  /\ LET c == docs[run[w].file_path]
     IN  run' = IF c = Absent
                  THEN [run EXCEPT ![w].pc = "ret", ![w].error = TRUE]
                  ELSE [run EXCEPT ![w].pc = "u_hopen", ![w].current_hash = Md5(c)]
  /\ UNCHANGED <<docs, ledger, hashes, modification_timers, timers, disp, budget, serial, last, sheet, queue>>

\* lines 193-198 and 204: an existing index is opened 'r+' and loaded ({} when
\* it does not parse); a missing one is created empty by open(HASH_FILE, 'w')
UHOpen(w) ==
  /\ run[w].pc = "u_hopen"
  /\ run' = [run EXCEPT ![w].pc = "u_hwrite",
                        ![w].hashes = IF hashes.state = "json" THEN hashes.map ELSE NoMap]
  /\ hashes' = IF hashes.state = "absent" THEN [state |-> "empty", map |-> NoMap]
                                            ELSE hashes
  /\ UNCHANGED <<docs, ledger, modification_timers, timers, disp, budget, serial, last, sheet, queue>>

\* lines 199-202 and 205: the mapping read, with this path's entry set, is
\* written back
UHWrite(w) ==
  /\ run[w].pc = "u_hwrite"
  /\ hashes' = [state |-> "json",
                map |-> SetEntry(run[w].hashes, run[w].file_path, run[w].current_hash)]
  /\ run' = [run EXCEPT ![w].pc = "ret", ![w].wroteIndex = TRUE]
  /\ UNCHANGED <<docs, ledger, modification_timers, timers, disp, budget, serial, last, sheet, queue>>

(***************************************************************************)
(* generate_summary(), lines 211-246, as run by thread w.                  *)
(***************************************************************************)
StartGenerate == [NoRun EXCEPT !.pc = "g_walk", !.op = "generate"]

\* lines 136-143: the .xlsx files under CHARGES_DIR, in walk order
get_all_excel_files == SelectSeq(WalkOrder, LAMBDA p : docs[p] # Absent)

\* where the loop of line 224 goes with `files` left to process
LoopPc(files) == IF files = <<>> THEN "g_open" ELSE "g_extract"

\* line 218.  run[w].lines keeps what the ledger holds when the rebuild
\* starts (history: the code does not read it).
GWalk(w) ==
  /\ run[w].pc = "g_walk"
  /\ run' = [run EXCEPT ![w].excel_files = get_all_excel_files,
                        ![w].lines = IF ledger.exists THEN ledger.lines ELSE <<>>,
                        ![w].pc = LoopPc(get_all_excel_files)]
  /\ UNCHANGED <<docs, ledger, hashes, modification_timers, timers, disp, budget, serial, last, sheet, queue>>

\* a variant of lines 225-226 that does not skip a file without data
GExtractNoSkip(w) ==
  /\ run[w].pc = "g_extract"
  /\ LET file_path == Head(run[w].excel_files)
         data == extract_excel_data(file_path, docs[file_path])
     IN  run' = [run EXCEPT ![w].data = data, ![w].pc = "g_hash"]
  /\ UNCHANGED <<docs, ledger, hashes, modification_timers, timers, disp, budget, serial, last, sheet, queue>>

\* lines 225-226: extract the next file; skip it when there is no data
GExtract(w) ==
  /\ run[w].pc = "g_extract"
  /\ LET file_path == Head(run[w].excel_files)
         data == extract_excel_data(file_path, docs[file_path])
     IN  run' = IF data.ok
                  THEN [run EXCEPT ![w].data = data, ![w].pc = "g_hash"]
                  ELSE [run EXCEPT ![w].excel_files = Tail(@),
                                   ![w].pc = LoopPc(Tail(run[w].excel_files))]
  /\ UNCHANGED <<docs, ledger, hashes, modification_timers, timers, disp, budget, serial, last, sheet, queue>>

\* lines 227-234: append the line, then hash the file (read again; a missing
\* file raises and line 245 ends the rebuild)
GHash(w) ==
  /\ run[w].pc = "g_hash"
  /\ LET file_path == Head(run[w].excel_files)
         c == docs[file_path]
     IN  run' = IF c = Absent
                  THEN [run EXCEPT ![w].pc = "ret", ![w].error = TRUE]
                  ELSE [run EXCEPT
                          ![w].summary_lines = Append(@, NewLine(run[w].data)),
                          ![w].hash_dict = SetEntry(@, file_path, Md5(c)),
                          ![w].data = NoData,
                          ![w].excel_files = Tail(@),
                          ![w].pc = LoopPc(Tail(run[w].excel_files))]
  /\ UNCHANGED <<docs, ledger, hashes, modification_timers, timers, disp, budget, serial, last, sheet, queue>>

\* line 236: open(SUMMARY_FILE, 'w') truncates the file
GOpen(w) ==
  /\ run[w].pc = "g_open"
  /\ ledger' = [exists |-> TRUE, lines |-> <<>>]
  /\ run' = [run EXCEPT ![w].pc = "g_write"]
  /\ UNCHANGED <<docs, hashes, modification_timers, timers, disp, budget, serial, last, sheet, queue>>

\* the text lines 237-239 write
RebuiltTable(summary_lines) == <<header>> \o summary_lines

\* lines 237-239
GWrite(w) ==
  /\ run[w].pc = "g_write"
  /\ ledger' = [exists |-> TRUE,
                lines |-> Overlay(RebuiltTable(run[w].summary_lines), ledger.lines)]
  /\ run' = [run EXCEPT ![w].pc = "g_hopen", ![w].wroteLedger = TRUE]
  /\ UNCHANGED <<docs, hashes, modification_timers, timers, disp, budget, serial, last, sheet, queue>>

\* lines 237-239 raising part-way
GWriteFail(w) ==
  /\ run[w].pc = "g_write"
  /\ budget.env > 0
  /\ \E part \in ProperPrefixes(RebuiltTable(run[w].summary_lines)) :
       ledger' = [exists |-> TRUE, lines |-> Overlay(part, ledger.lines)]
  /\ run' = [run EXCEPT ![w].pc = "ret", ![w].error = TRUE]
  /\ budget' = [budget EXCEPT !.env = @ - 1]
  /\ UNCHANGED <<docs, hashes, modification_timers, timers, disp, serial, last, sheet, queue>>

\* line 241: open(HASH_FILE, 'w') truncates the index
GHOpen(w) ==
  /\ run[w].pc = "g_hopen"
  /\ hashes' = [state |-> "empty", map |-> NoMap]
  /\ run' = [run EXCEPT ![w].pc = "g_hwrite"]
  /\ UNCHANGED <<docs, ledger, modification_timers, timers, disp, budget, serial, last, sheet, queue>>

\* a variant of line 242 that indexes every file of the tree, extracted or not
GHWriteEveryFile(w) ==
  /\ run[w].pc = "g_hwrite"
  /\ hashes' = [state |-> "json",
                map |-> [p \in {q \in Paths : docs[q] # Absent} |-> Md5(docs[p])]]
  /\ run' = [run EXCEPT ![w].pc = "ret", ![w].wroteIndex = TRUE]
  /\ UNCHANGED <<docs, ledger, modification_timers, timers, disp, budget, serial, last, sheet, queue>>

\* line 242
GHWrite(w) ==
  /\ run[w].pc = "g_hwrite"
  /\ hashes' = [state |-> "json", map |-> run[w].hash_dict]
  /\ run' = [run EXCEPT ![w].pc = "ret", ![w].wroteIndex = TRUE]
  /\ UNCHANGED <<docs, ledger, modification_timers, timers, disp, budget, serial, last, sheet, queue>>

(***************************************************************************)
(* ExcelFileHandler, lines 251-278, and the timer threads.                 *)
(*                                                                         *)
(* timers[t] is the Timer of the t-th modification notification:           *)
(*   "unused"    no such notification yet                                  *)
(*   "new"       on_modified was entered, the Timer is not created yet     *)
(*   "lost"      on_modified raised before creating it                     *)
(*   "armed"     started, waiting (rem ticks of the delay are left)        *)
(*   "cancelled" cancel() came before the wait ended                       *)
(*   "fired"     the wait ended un-cancelled; handle_modified is called    *)
(*   "running"   inside handle_modified                                    *)
(*   "done"      handle_modified returned                                  *)
(* burst is the first notification of the burst the timer belongs to: a    *)
(* notification continues the burst of the previous one for its path when  *)
(* it comes while that one's timer still waits (a timer never ends its     *)
(* wait before the delay has passed, so this covers every notification     *)
(* that comes less than the delay after the previous one).                 *)
(***************************************************************************)
Used(path) == {t \in TimerIds : timers[t].st # "unused" /\ timers[t].path = path}

Latest(path) == CHOOSE t \in Used(path) : \A t2 \in Used(path) : t2 <= t

NextTimer == CHOOSE t \in TimerIds :
               /\ timers[t].st = "unused"
               /\ \A t2 \in TimerIds : t2 < t => timers[t2].st # "unused"

BurstOf(path, t) ==
  IF Used(path) # {} /\ timers[Latest(path)].st = "armed"
    THEN timers[Latest(path)].burst
    ELSE t

\* a newer notification for the same path has armed its own timer
Superseded(t) ==
  \E t2 \in TimerIds :
    /\ t2 > t
    /\ timers[t2].path = timers[t].path
    /\ timers[t2].st \notin {"unused", "new", "lost"}

\* lines 260-263: a modification notification for a document; the test of
\* line 263 chooses between cancelling and arming
OnModified(path) ==
  /\ disp.pc = "idle"
  /\ budget.ops > 0
  /\ \E t \in TimerIds : timers[t].st = "unused"
  /\ LET t == NextTimer
     IN  /\ timers' = [timers EXCEPT ![t] =
                         [st |-> "new", path |-> path, rem |-> DebounceDelay,
                          burst |-> BurstOf(path, t), superseded |-> FALSE,
                          served |-> 0]]
         /\ disp' = [pc |-> IF path \in DOMAIN modification_timers
                              THEN "m_cancel" ELSE "m_arm",
                     path |-> path, rem |-> 0]
  /\ budget' = [budget EXCEPT !.ops = @ - 1]
  /\ UNCHANGED <<docs, ledger, hashes, modification_timers, run, serial, last, sheet, queue>>

\* line 264: modification_timers[path].cancel(); the lookup raises KeyError
\* when the entry was deleted since line 263, which ends the dispatch thread.
\* cancel() stops a timer only while it waits.
MCancel ==
  /\ disp.pc = "m_cancel"
  /\ LET t == Latest(disp.path)
     IN  IF disp.path \in DOMAIN modification_timers
           THEN LET old == modification_timers[disp.path]
                IN  /\ timers' = IF timers[old].st = "armed"
                                   THEN [timers EXCEPT ![old].st = "cancelled",
                                                       ![old].rem = 0]
                                   ELSE timers
                    /\ disp' = [disp EXCEPT !.pc = "m_arm"]
           ELSE /\ timers' = [timers EXCEPT ![t].st = "lost"]
                /\ disp' = [disp EXCEPT !.pc = "crashed"]
  /\ UNCHANGED <<docs, ledger, hashes, modification_timers, run, budget, serial, last, sheet, queue>>

\* lines 265-267: create the Timer, store it, start it
MArm ==
  /\ disp.pc = "m_arm"
  /\ LET t == Latest(disp.path)
     IN  /\ timers' = [timers EXCEPT ![t].st = "armed"]
         /\ modification_timers' = SetEntry(modification_timers, disp.path, t)
  /\ disp' = IdleDisp
  /\ UNCHANGED <<docs, ledger, hashes, run, budget, serial, last, sheet, queue>>

\* threading.Timer.run: the wait is over and cancel() has not been called
TimerFire(t) ==
  /\ timers[t].st = "armed"
  /\ timers[t].rem = 0
  /\ timers' = [timers EXCEPT ![t].st = "fired"]
  /\ UNCHANGED <<docs, ledger, hashes, modification_timers, disp, run, budget, serial, last, sheet, queue>>

\* line 270: handle_modified calls update_summary.  served (history): the
\* first timer whose call started since the notification was delivered.
TimerRun(t) ==
  /\ timers[t].st = "fired"
  /\ MayStart
  /\ timers' = [t2 \in TimerIds |->
                  IF t2 = t
                    THEN [timers[t] EXCEPT !.st = "running",
                                           !.superseded = Superseded(t),
                                           !.served = IF @ = 0 THEN t ELSE @]
                    ELSE IF /\ timers[t2].st # "unused"
                            /\ timers[t2].path = timers[t].path
                            /\ timers[t2].served = 0
                           THEN [timers[t2] EXCEPT !.served = t]
                           ELSE timers[t2]]
  /\ run' = [run EXCEPT ![t] = StartUpdate(timers[t].path)]
  /\ UNCHANGED <<docs, ledger, hashes, modification_timers, disp, budget, serial, last, sheet, queue>>

\* what a finished call keeps (for the properties): its path, data and flags
Finished(r) == [r EXCEPT !.pc = "done", !.lines = <<>>, !.hashes = NoMap]

\* line 271: update_summary returned; is the path in the table?
HCheck(t) ==
  /\ t \in TimerIds
  /\ run[t].pc = "ret"
  /\ IF run[t].file_path \in DOMAIN modification_timers
       THEN /\ run' = [run EXCEPT ![t].pc = "h_del"]
            /\ UNCHANGED timers
       ELSE /\ run' = [run EXCEPT ![t] = Finished(run[t])]
            /\ timers' = [timers EXCEPT ![t].st = "done"]
  /\ last' = LastAfter(run[t])
  /\ UNCHANGED <<docs, ledger, hashes, modification_timers, disp, budget, serial, sheet, queue>>

\* line 272: del modification_timers[file_path], whatever timer it holds
\* (a KeyError, when another thread deleted it first, ends this thread too)
DeleteEntry(t) == DelEntry(modification_timers, run[t].file_path)

HDel(t) ==
  /\ t \in TimerIds
  /\ run[t].pc = "h_del"
  /\ modification_timers' = DeleteEntry(t)
  /\ run' = [run EXCEPT ![t] = Finished(run[t])]
  /\ timers' = [timers EXCEPT ![t].st = "done"]
  /\ UNCHANGED <<docs, ledger, hashes, disp, budget, serial, last, sheet, queue>>

\* lines 254-256: a creation notification; the dispatch thread sleeps
OnCreated(path) ==
  /\ disp.pc = "idle"
  /\ budget.ops > 0
  /\ disp' = [pc |-> "c_sleep", path |-> path, rem |-> SettleDelay]
  /\ budget' = [budget EXCEPT !.ops = @ - 1]
  /\ UNCHANGED <<docs, ledger, hashes, modification_timers, timers, run, serial, last, sheet, queue>>

\* a variant of lines 256-257 that calls update_summary without waiting
OnCreatedUpdateNoWait ==
  /\ disp.pc = "c_sleep"
  /\ MayStart
  /\ disp' = [disp EXCEPT !.pc = "busy"]
  /\ run' = [run EXCEPT ![Disp] = StartUpdate(disp.path)]
  /\ UNCHANGED <<docs, ledger, hashes, modification_timers, timers, budget, serial, last, sheet, queue>>

\* line 257: the sleep is over; update_summary runs in the dispatch thread
OnCreatedUpdate ==
  /\ disp.pc = "c_sleep"
  /\ disp.rem = 0
  /\ MayStart
  /\ disp' = [disp EXCEPT !.pc = "busy"]
  /\ run' = [run EXCEPT ![Disp] = StartUpdate(disp.path)]
  /\ UNCHANGED <<docs, ledger, hashes, modification_timers, timers, budget, serial, last, sheet, queue>>

\* lines 275-278: a deletion notification; generate_summary runs in the
\* dispatch thread
OnDeleted(path) ==
  /\ disp.pc = "idle"
  /\ budget.ops > 0
  /\ MayStart
  /\ disp' = [pc |-> "busy", path |-> path, rem |-> 0]
  /\ run' = [run EXCEPT ![Disp] = StartGenerate]
  /\ budget' = [budget EXCEPT !.ops = @ - 1]
  /\ UNCHANGED <<docs, ledger, hashes, modification_timers, timers, serial, last, sheet, queue>>

\* on_created / on_deleted return: the dispatch thread takes the next event
DispReturn ==
  /\ run[Disp].pc = "ret"
  /\ run' = [run EXCEPT ![Disp] = NoRun]
  /\ disp' = IdleDisp
  /\ last' = LastAfter(run[Disp])
  /\ UNCHANGED <<docs, ledger, hashes, modification_timers, timers, budget, serial, sheet, queue>>

\* One unit of time passes.  on_modified runs in less than a unit.
Tick ==
  /\ disp.pc \notin {"m_cancel", "m_arm"}
  /\ \/ disp.rem > 0
     \/ \E t \in TimerIds : timers[t].rem > 0
  /\ timers' = [t \in TimerIds |->
                  IF timers[t].rem > 0 THEN [timers[t] EXCEPT !.rem = @ - 1]
                                       ELSE timers[t]]
  /\ disp' = IF disp.rem > 0 THEN [disp EXCEPT !.rem = @ - 1] ELSE disp
  /\ UNCHANGED <<docs, ledger, hashes, modification_timers, run, budget, serial, last, sheet, queue>>

\* lines 285-288: a modification notification arrives while the dispatch
\* thread sleeps in on_created (line 256); the observer queues it
Notify(path) ==
  /\ disp.pc = "c_sleep"
  /\ budget.ops > 0
  /\ queue' = Append(queue, path)
  /\ budget' = [budget EXCEPT !.ops = @ - 1]
  /\ UNCHANGED <<docs, ledger, hashes, modification_timers, timers, disp, run, serial, last, sheet>>

\* lines 260-263 for the notification at the head of the queue, once the
\* dispatch thread is free
OnModifiedQueued ==
  /\ disp.pc = "idle"
  /\ queue # <<>>
  /\ \E t \in TimerIds : timers[t].st = "unused"
  /\ LET path == Head(queue)
         t == NextTimer
     IN  /\ timers' = [timers EXCEPT ![t] =
                         [st |-> "new", path |-> path, rem |-> DebounceDelay,
                          burst |-> BurstOf(path, t), superseded |-> FALSE,
                          served |-> 0]]
         /\ disp' = [pc |-> IF path \in DOMAIN modification_timers
                              THEN "m_cancel" ELSE "m_arm",
                     path |-> path, rem |-> 0]
  /\ queue' = Tail(queue)
  /\ UNCHANGED <<docs, ledger, hashes, modification_timers, run, budget, serial, last, sheet>>

\* A notification: event.src_path and event.is_directory, and the handler
\* the observer calls for it.
Extension == <<".", "xlsx">>
DirD1 == <<"d1">>
PathTxt == <<"d1", "/", "a", ".", "txt">>
PathTmp == <<"d1", "/", "a", ".", "xlsx", ".", "tmp">>
Events ==
  [kind : {"created", "modified", "deleted"},
   src_path : {PathA, DirD1, PathTxt, PathTmp},
   is_directory : BOOLEAN]

\* str.endswith
EndsWith(s, suffix) ==
  /\ Len(suffix) <= Len(s)
  /\ SubSeq(s, Len(s) - Len(suffix) + 1, Len(s)) = suffix

\* a variant of the handlers' condition without the test for a directory
AcceptsDirectories(event) == EndsWith(event.src_path, Extension)

\* lines 254, 260, 275: not event.is_directory and
\* event.src_path.endswith(".xlsx")
Accepts(event) ==
  /\ ~event.is_directory
  /\ EndsWith(event.src_path, Extension)

\* the observer calls the handler of the event's kind; a handler whose
\* condition is false returns at once
Handle(event) ==
  \/ /\ Accepts(event)
     /\ event.kind = "created"
     /\ OnCreated(event.src_path)
  \/ /\ Accepts(event)
     /\ event.kind = "modified"
     /\ OnModified(event.src_path)
  \/ /\ Accepts(event)
     /\ event.kind = "deleted"
     /\ OnDeleted(event.src_path)
  \/ /\ ~Accepts(event)
     /\ disp.pc = "idle"
     /\ budget.ops > 0
     /\ budget' = [budget EXCEPT !.ops = @ - 1]
     /\ UNCHANGED <<docs, ledger, hashes, modification_timers, timers, disp, run, serial, last, sheet, queue>>

\* lines 45-52 and 300-311: the main thread, before the observer runs
\* (disp.pc = "main"), writes the header to the ledger file when no such
\* file exists, and starts the observer
initialize_summary_file ==
  /\ disp.pc = "main"
  /\ ledger' = IF ~ledger.exists THEN [exists |-> TRUE, lines |-> <<header>>]
                                 ELSE ledger
  /\ disp' = IdleDisp
  /\ UNCHANGED <<docs, hashes, modification_timers, timers, run, budget, serial, last, sheet, queue>>

(***************************************************************************)
(* The environment: the API layer (main.py) and external writers.          *)
(***************************************************************************)
\* main.py lines 143-158: generate_reference creates a document under a new
\* name and calls update_summary on it
ApiCreate(path, c) ==
  /\ budget.ops > 0
  /\ run[Api].pc = "idle"
  /\ docs[path] = Absent
  /\ MayStart
  /\ docs' = [docs EXCEPT ![path] = c]
  /\ run' = [run EXCEPT ![Api] = StartUpdate(path)]
  /\ budget' = [budget EXCEPT !.ops = @ - 1]
  /\ UNCHANGED <<ledger, hashes, modification_timers, timers, disp, serial, last, sheet, queue>>

\* generate_reference's call of update_summary returns
ApiReturn ==
  /\ run[Api].pc = "ret"
  /\ run' = [run EXCEPT ![Api] = NoRun]
  /\ last' = LastAfter(run[Api])
  /\ UNCHANGED <<docs, ledger, hashes, modification_timers, timers, disp, budget, serial, sheet, queue>>

\* the history once the bytes of the document changed
Forget(path) == IF last.file_path = path THEN NoLast ELSE last

\* an external actor saves a document (creating it when it is missing)
ExtWrite(path, c) ==
  /\ budget.env > 0
  /\ MayStart
  /\ docs[path] # c
  /\ docs' = [docs EXCEPT ![path] = c]
  /\ budget' = [budget EXCEPT !.env = @ - 1]
  /\ last' = Forget(path)
  /\ UNCHANGED <<ledger, hashes, modification_timers, timers, disp, run, serial, sheet, queue>>

\* an external actor deletes a document
ExtDelete(path) ==
  /\ budget.env > 0
  /\ MayStart
  /\ docs[path] # Absent
  /\ docs' = [docs EXCEPT ![path] = Absent]
  /\ budget' = [budget EXCEPT !.env = @ - 1]
  /\ last' = Forget(path)
  /\ UNCHANGED <<ledger, hashes, modification_timers, timers, disp, run, serial, sheet, queue>>

\* lines 208-209 and 245-246: the except clause logs and the function ends,
\* so the caller of update_summary or generate_summary gets None whether or
\* not the call failed
Returned(r) == "None"

(***************************************************************************)
(* The worksheet reads of extract_excel_data (lines 62-131).  A cell       *)
(* address is <<column, row>>; a merged range is its corner columns and    *)
(* rows; a worksheet is its cells' values and its merged ranges.  A cell   *)
(* of a merged range other than the top-left one holds None (openpyxl's    *)
(* MergedCell).                                                            *)
(***************************************************************************)
None == "None"

E2 == <<5, 2>>
F2 == <<6, 2>>
G2 == <<7, 2>>
F43 == <<6, 43>>
G43 == <<7, 43>>
G45 == <<7, 45>>
G47 == <<7, 47>>
G49 == <<7, 49>>
C53 == <<3, 53>>
C57 == <<3, 57>>
H53 == <<8, 53>>
H55 == <<8, 55>>
H57 == <<8, 57>>
A59 == <<1, 59>>
C59 == <<3, 59>>
D59 == <<4, 59>>
E59 == <<5, 59>>
G59 == <<7, 59>>
H59 == <<8, 59>>
I59 == <<9, 59>>
J59 == <<10, 59>>

\* lines 121-129: the cells get_number is called on
NumberCells == {G43, G45, G47, G49, C53, C57, H53, H55, H57}

\* lines 109: the helper cells, left to right
Helpers == <<C59, G59, J59>>

\* lines 104-108
helper_to_content == [h \in {C59, G59, J59} |->
                        IF h = C59 THEN A59 ELSE IF h = G59 THEN D59 ELSE H59]

\* line 69: cell_coord in merged_range
InRange(cell_coord, merged_range) ==
  /\ merged_range.min_col <= cell_coord[1] /\ cell_coord[1] <= merged_range.max_col
  /\ merged_range.min_row <= cell_coord[2] /\ cell_coord[2] <= merged_range.max_row

\* ws[cell].value
CellValue(ws, cell) == ws.cells[cell]

\* lines 62-71
get_merged_cell_value(ws, cell_coord) ==
  IF \E r \in ws.merged : InRange(cell_coord, r)
    THEN LET r == CHOOSE r \in ws.merged : InRange(cell_coord, r)
         IN  CellValue(ws, <<r.min_col, r.min_row>>)
    ELSE CellValue(ws, cell_coord)

\* line 110: the helper cell is not empty
HelperSet(ws, helper) == CellValue(ws, helper) \notin {None, ""}

\* a variant of lines 108-111 that keeps the first helper cell that is set
RECURSIVE ChosenFirst(_, _, _)
ChosenFirst(ws, helpers, chosen_helper) ==
  IF helpers = <<>> THEN chosen_helper
  ELSE ChosenFirst(ws, Tail(helpers),
                   IF chosen_helper = <<>> /\ HelperSet(ws, Head(helpers))
                     THEN Head(helpers) ELSE chosen_helper)

\* lines 108-111: the loop over the helper cells; <<>> stands for None
RECURSIVE Chosen(_, _, _)
Chosen(ws, helpers, chosen_helper) ==
  IF helpers = <<>> THEN chosen_helper
  ELSE Chosen(ws, Tail(helpers),
              IF HelperSet(ws, Head(helpers)) THEN Head(helpers) ELSE chosen_helper)

\* lines 90-114
get_etat_payment(ws) ==
  LET chosen_helper == Chosen(ws, Helpers, <<>>)
  IN  IF chosen_helper # <<>>
        THEN get_merged_cell_value(ws, helper_to_content[chosen_helper])
        ELSE "PAS ENCORE"

\* line 120
ReadLieu ==
  /\ sheet' = [sheet EXCEPT !.got = [field |-> "lieu", cell |-> F2,
                                     value |-> CellValue(sheet.ws, F2),
                                     reference |-> <<>>]]
  /\ UNCHANGED <<docs, ledger, hashes, modification_timers, timers, disp, run, budget, serial, last, queue>>

\* lines 84 and 121-129: get_number's read of its cell
ReadNumber(cell) ==
  /\ sheet' = [sheet EXCEPT !.got = [field |-> "number", cell |-> cell,
                                     value |-> CellValue(sheet.ws, cell),
                                     reference |-> <<>>]]
  /\ UNCHANGED <<docs, ledger, hashes, modification_timers, timers, disp, run, budget, serial, last, queue>>

\* lines 116 and 130
ReadEtat ==
  /\ sheet' = [sheet EXCEPT !.got = [field |-> "etat_payment", cell |-> <<>>,
                                     value |-> get_etat_payment(sheet.ws),
                                     reference |-> <<>>]]
  /\ UNCHANGED <<docs, ledger, hashes, modification_timers, timers, disp, run, budget, serial, last, queue>>

\* line 113: get_etat_payment's read of the content cell
ReadContent ==
  /\ Chosen(sheet.ws, Helpers, <<>>) # <<>>
  /\ LET content_cell == helper_to_content[Chosen(sheet.ws, Helpers, <<>>)]
     IN  sheet' = [sheet EXCEPT !.got = [field |-> "content", cell |-> content_cell,
                                         value |-> get_merged_cell_value(sheet.ws, content_cell),
                                         reference |-> <<>>]]
  /\ UNCHANGED <<docs, ledger, hashes, modification_timers, timers, disp, run, budget, serial, last, queue>>

\* line 119
ReadReference(path) ==
  /\ sheet' = [sheet EXCEPT !.got = [field |-> "reference", cell |-> path,
                                     value |-> None,
                                     reference |-> Reference(path)]]
  /\ UNCHANGED <<docs, ledger, hashes, modification_timers, timers, disp, run, budget, serial, last, queue>>

\* line 110: get_etat_payment's read of a helper cell
ReadHelper(helper) ==
  /\ sheet' = [sheet EXCEPT !.got = [field |-> "helper", cell |-> helper,
                                     value |-> CellValue(sheet.ws, helper),
                                     reference |-> <<>>]]
  /\ UNCHANGED <<docs, ledger, hashes, modification_timers, timers, disp, run, budget, serial, last, queue>>

(***************************************************************************)
(* Specifications.                                                         *)
(***************************************************************************)
\* After startup (initialize_summary_file, lines 45-52, on a first run): the
\* ledger holds its header, there is no index, no timer exists.
InitStores ==
  /\ ledger = [exists |-> TRUE, lines |-> <<header>>]
  /\ hashes = [state |-> "absent", map |-> NoMap]
  /\ modification_timers = NoMap
  /\ timers = [t \in TimerIds |-> NoTimer]
  /\ disp = IdleDisp
  /\ run = [w \in Workers |-> NoRun]
  /\ last = NoLast
  /\ queue = <<>>
  /\ sheet = NoSheet

UpdateSteps(w) ==
  \/ UExtract(w) \/ URead(w) \/ UOpen(w) \/ UWrite(w)
  \/ UHash(w) \/ UHOpen(w) \/ UHWrite(w)

GenerateSteps(w) ==
  \/ GWalk(w) \/ GExtract(w) \/ GHash(w) \/ GOpen(w) \/ GWrite(w)
  \/ GHOpen(w) \/ GHWrite(w)

TimerSteps(t) ==
  \/ UpdateSteps(t) \/ TimerFire(t) \/ TimerRun(t) \/ HCheck(t) \/ HDel(t)

\* The whole program and its environment.
Init ==
  /\ InitStores
  /\ docs \in [Paths -> {Absent} \cup Contents]
  /\ budget = [ops |-> MaxTimers, env |-> MaxTimers]
  /\ serial = FALSE

Next ==
  \/ \E w \in Workers : UpdateSteps(w) \/ GenerateSteps(w)
                          \/ UWriteFail(w) \/ GWriteFail(w)
  \/ \E t \in TimerIds : TimerFire(t) \/ TimerRun(t) \/ HCheck(t) \/ HDel(t)
  \/ \E path \in Paths : OnModified(path) \/ OnCreated(path) \/ OnDeleted(path)
  \/ MCancel \/ MArm \/ OnCreatedUpdate \/ DispReturn \/ Tick
  \/ \E path \in Paths : ExtDelete(path)
  \/ \E path \in Paths, c \in Contents : ExtWrite(path, c)
  \/ \E path \in Paths, c \in Contents \ {"corrupt"} : ApiCreate(path, c)
  \/ ApiReturn

Spec == Init /\ [][Next]_vars

\* The watcher and its timer threads alone: modification notifications for
\* two documents that do not change meanwhile.
InitDebounce ==
  /\ InitStores
  /\ docs = [p \in Paths |-> IF p = PathA2 THEN Absent ELSE "rabat"]
  /\ budget = [ops |-> MaxTimers, env |-> 0]
  /\ serial = FALSE

NextDebounce ==
  \/ \E t \in TimerIds : TimerSteps(t)
  \/ OnModified(PathA) \/ OnModified(PathAB)
  \/ MCancel \/ MArm \/ Tick

SpecDebounce == InitDebounce /\ [][NextDebounce]_vars

\* One document, modified by an external writer while the watcher handles
\* its notifications.
InitEdit ==
  /\ InitStores
  /\ docs \in {[p \in Paths |-> IF p = PathA THEN c ELSE Absent] : c \in {"corrupt", "rabat"}}
  /\ budget = [ops |-> EditOps, env |-> EditEnv]
  /\ serial = FALSE

NextEdit ==
  \/ \E t \in TimerIds : TimerSteps(t)
  \/ OnModified(PathA)
  \/ MCancel \/ MArm \/ Tick
  \/ ExtDelete(PathA)
  \/ \E c \in Contents : ExtWrite(PathA, c)

SpecEdit == InitEdit /\ [][NextEdit]_vars

\* The same scenario with the calls of update_summary and the external
\* writes not overlapping; the notifications and the timers still interleave.
InitEditSerial ==
  /\ InitStores
  /\ docs \in {[p \in Paths |-> IF p = PathA THEN c ELSE Absent] : c \in {"corrupt", "rabat"}}
  /\ budget = [ops |-> EditOps, env |-> EditEnv]
  /\ serial = TRUE

SpecEditSerial == InitEditSerial /\ [][NextEdit]_vars

\* Operations one at a time, with no writer in between: creation and
\* deletion notifications, API calls, external writes, failing writes.
\* The stores start either as on a first run, or as an earlier session that
\* processed every document of the tree (in walk order) left them.
RECURSIVE ProcessedLedger(_, _)
ProcessedLedger(files, tree) ==
  IF files = <<>> THEN <<header>>
  ELSE LET file_path == files[Len(files)]
       IN  NewLines(ProcessedLedger(SubSeq(files, 1, Len(files) - 1), tree),
                    extract_excel_data(file_path, tree[file_path]))

ProcessedIndex(tree) ==
  [p \in {q \in Paths : tree[q] # Absent} |-> Md5(tree[p])]

InitSerial ==
  /\ docs \in [Paths -> {Absent, "rabat"}]
  /\ \/ InitStores
     \/ /\ \E p \in Paths : docs[p] # Absent
        /\ ledger = [exists |-> TRUE,
                     lines |-> ProcessedLedger(
                                 SelectSeq(WalkOrder, LAMBDA p : docs[p] # Absent), docs)]
        /\ hashes = [state |-> "json", map |-> ProcessedIndex(docs)]
        /\ modification_timers = NoMap
        /\ timers = [t \in TimerIds |-> NoTimer]
        /\ disp = IdleDisp
        /\ run = [w \in Workers |-> NoRun]
        /\ last = NoLast
        /\ queue = <<>>
        /\ sheet = NoSheet
  /\ budget = [ops |-> SerialOps, env |-> SerialEnv]
  /\ serial = TRUE

NextSerial ==
  \/ \E w \in {Disp, Api} : UpdateSteps(w) \/ UWriteFail(w)
  \/ GenerateSteps(Disp) \/ GWriteFail(Disp)
  \/ \E path \in Paths : OnCreated(path) \/ OnDeleted(path)
  \/ OnCreatedUpdate \/ DispReturn \/ Tick
  \/ \E path \in Paths : ExtDelete(path)
  \/ \E path \in Paths, c \in Contents : ExtWrite(path, c)
  \/ \E path \in Paths, c \in Contents \ {"corrupt"} : ApiCreate(path, c)
  \/ ApiReturn

SpecSerial == InitSerial /\ [][NextSerial]_vars

\* The API layer and the watcher at once: generate_reference's call of
\* update_summary (main.py line 158, in the server's thread) overlaps the
\* dispatch thread's on_created and on_deleted; documents are deleted from
\* outside.  The stores start as in SpecSerial.
InitApi ==
  /\ docs \in [Paths -> {Absent, "rabat"}]
  /\ \/ InitStores
     \/ /\ \E p \in Paths : docs[p] # Absent
        /\ ledger = [exists |-> TRUE,
                     lines |-> ProcessedLedger(
                                 SelectSeq(WalkOrder, LAMBDA p : docs[p] # Absent), docs)]
        /\ hashes = [state |-> "json", map |-> ProcessedIndex(docs)]
        /\ modification_timers = NoMap
        /\ timers = [t \in TimerIds |-> NoTimer]
        /\ disp = IdleDisp
        /\ run = [w \in Workers |-> NoRun]
        /\ last = NoLast
        /\ queue = <<>>
        /\ sheet = NoSheet
  /\ budget = [ops |-> ApiOps, env |-> ApiEnv]
  /\ serial = FALSE

NextApi ==
  \/ \E w \in {Disp, Api} : UpdateSteps(w)
  \/ GenerateSteps(Disp)
  \/ \E path \in Paths : OnCreated(path) \/ OnDeleted(path)
  \/ OnCreatedUpdate \/ DispReturn \/ Tick
  \/ \E path \in Paths : ExtDelete(path)
  \/ \E path \in Paths, c \in Contents \ {"corrupt"} : ApiCreate(path, c)
  \/ ApiReturn

SpecApi == InitApi /\ [][NextApi]_vars

\* The extraction of one workbook: the worksheets differ in their merged
\* ranges and in the values of the helper cells, of F2 and of G43; the paths
\* include a file name with two dots (main.py line 136 builds the name from
\* the submitted filename).
Range(c1, r1, c2, r2) == [min_col |-> c1, min_row |-> r1, max_col |-> c2, max_row |-> r2]

MergeChoices ==
  {m \in SUBSET {Range(4, 59, 5, 59), Range(7, 59, 8, 59), Range(9, 59, 10, 59),
                 Range(5, 2, 6, 2), Range(6, 2, 7, 2), Range(6, 43, 7, 43)} :
     Range(5, 2, 6, 2) \in m => Range(6, 2, 7, 2) \notin m}

SheetCells == {E2, F2, G2, F43, A59, C59, D59, E59, G59, H59, I59, J59} \cup NumberCells

\* the value a cell holds: None inside a merged range unless it is the
\* top-left cell
Stored(merged, cell, value) ==
  IF \E r \in merged : InRange(cell, r) /\ cell # <<r.min_col, r.min_row>>
    THEN None ELSE value

MakeSheet(merged, helpers, lieu, g43) ==
  [merged |-> merged,
   cells |-> [cell \in SheetCells |->
                Stored(merged, cell,
                       IF cell \in {C59, G59, J59} THEN helpers[cell]
                       ELSE IF cell = F2 THEN lieu
                       ELSE IF cell = G43 THEN g43
                       ELSE IF cell = E2 THEN "Sale"
                       ELSE IF cell = F43 THEN "7"
                       ELSE IF cell = A59 THEN "PAYE"
                       ELSE IF cell = D59 THEN "AVANCE"
                       ELSE IF cell = H59 THEN "SOLDE"
                       ELSE IF cell = I59 THEN "x"
                       ELSE None)]]

PathDots == <<"d1", "/", "a", ".", "v2", ".", "xlsx">>
SheetPaths == Paths \cup {PathDots}

InitSheet ==
  /\ ledger = [exists |-> TRUE, lines |-> <<header>>]
  /\ hashes = [state |-> "absent", map |-> NoMap]
  /\ modification_timers = NoMap
  /\ timers = [t \in TimerIds |-> NoTimer]
  /\ disp = IdleDisp
  /\ run = [w \in Workers |-> NoRun]
  /\ last = NoLast
  /\ queue = <<>>
  /\ docs = [p \in Paths |-> Absent]
  /\ budget = [ops |-> 0, env |-> 0]
  /\ serial = TRUE
  /\ \E merged \in MergeChoices, helpers \in [{C59, G59, J59} -> {None, "", "x"}],
        lieu \in {None, "", "Rabat"}, g43 \in {None, "5", "abc"} :
       sheet = [ws |-> MakeSheet(merged, helpers, lieu, g43), got |-> NoRead]

NextSheet ==
  \/ ReadLieu
  \/ \E cell \in NumberCells : ReadNumber(cell)
  \/ \E helper \in {C59, G59, J59} : ReadHelper(helper)
  \/ ReadContent
  \/ ReadEtat
  \/ \E path \in SheetPaths : ReadReference(path)

SpecSheet == InitSheet /\ [][NextSheet]_vars

\* Saves of one document under fair scheduling: the dispatch thread and
\* every timer thread keep taking their steps and time keeps passing; the
\* notifications stop when their budget is spent.
InitFair ==
  /\ InitStores
  /\ docs = [p \in Paths |-> IF p = PathA THEN "rabat" ELSE Absent]
  /\ budget = [ops |-> FairOps, env |-> 0]
  /\ serial = FALSE

NextFair ==
  \/ \E t \in TimerIds : TimerSteps(t)
  \/ OnModified(PathA)
  \/ MCancel \/ MArm \/ Tick

SpecFair ==
  /\ InitFair
  /\ [][NextFair]_vars
  /\ WF_vars(MCancel)
  /\ WF_vars(MArm)
  /\ WF_vars(Tick)
  /\ \A t \in TimerIds : WF_vars(TimerSteps(t))

\* A document is created and then saved: creation notifications, and
\* modification notifications that arrive while on_created sleeps.  The
\* calls of update_summary do not overlap.
InitCreate ==
  /\ InitStores
  /\ docs = [p \in Paths |-> IF p = PathA THEN "rabat" ELSE Absent]
  /\ budget = [ops |-> CreateOps, env |-> 0]
  /\ serial = TRUE

NextCreate ==
  \/ OnCreated(PathA)
  \/ Notify(PathA)
  \/ OnModifiedQueued
  \/ OnCreatedUpdate
  \/ UpdateSteps(Disp)
  \/ DispReturn
  \/ \E t \in TimerIds : TimerSteps(t)
  \/ MCancel \/ MArm \/ Tick

SpecCreate == InitCreate /\ [][NextCreate]_vars

\* Notifications of every kind, for the document d1/a.xlsx, for directories
\* and for files of other names, one thread in update_summary or
\* generate_summary at a time.
InitFilter ==
  /\ InitStores
  /\ docs = [p \in Paths |-> IF p = PathA THEN "rabat" ELSE Absent]
  /\ budget = [ops |-> FilterOps, env |-> 0]
  /\ serial = TRUE

NextFilter ==
  \/ \E event \in Events : Handle(event)
  \/ OnCreatedUpdate
  \/ UpdateSteps(Disp)
  \/ GenerateSteps(Disp)
  \/ DispReturn
  \/ \E t \in TimerIds : TimerSteps(t)
  \/ MCancel
  \/ MArm
  \/ Tick

SpecFilter == InitFilter /\ [][NextFilter]_vars

\* Startup: the main thread finds the ledger file absent, empty, holding a
\* record without the header, or as an earlier session left it, and then
\* monitors the tree.
LedgersAtStartup ==
  {[exists |-> FALSE, lines |-> <<>>],
   [exists |-> TRUE, lines |-> <<>>],
   [exists |-> TRUE, lines |-> <<NewLine(extract_excel_data(PathA, "rabat"))>>],
   [exists |-> TRUE, lines |-> <<header>>],
   [exists |-> TRUE, lines |-> <<header, NewLine(extract_excel_data(PathA, "rabat"))>>]}

InitStartup ==
  /\ ledger \in LedgersAtStartup
  /\ hashes = [state |-> "absent", map |-> NoMap]
  /\ modification_timers = NoMap
  /\ timers = [t \in TimerIds |-> NoTimer]
  /\ disp = [pc |-> "main", path |-> NoPath, rem |-> 0]
  /\ run = [w \in Workers |-> NoRun]
  /\ last = NoLast
  /\ queue = <<>>
  /\ sheet = NoSheet
  /\ docs = [p \in Paths |-> IF p = PathA THEN "rabat" ELSE Absent]
  /\ budget = [ops |-> StartOps, env |-> 0]
  /\ serial = TRUE

NextStartup ==
  \/ initialize_summary_file
  \/ OnCreated(PathA)
  \/ OnModified(PathA)
  \/ OnCreatedUpdate
  \/ UpdateSteps(Disp)
  \/ DispReturn
  \/ \E t \in TimerIds : TimerSteps(t)
  \/ MCancel
  \/ MArm
  \/ Tick

SpecStartup == InitStartup /\ [][NextStartup]_vars

(***************************************************************************)
(* Properties.                                                             *)
(***************************************************************************)
\* the notifications of the burst that notification b began
BurstMembers(b) == {t \in TimerIds : timers[t].st # "unused" /\ timers[t].burst = b}

LastOfBurst(b) == CHOOSE t \in BurstMembers(b) : \A t2 \in BurstMembers(b) : t2 <= t

\* the burst is complete and nothing of it is pending: each of its timers
\* ended (so the wait of the last one is over, or the dispatch thread died)
BurstOver(b) ==
  /\ BurstMembers(b) # {}
  /\ \A t \in BurstMembers(b) : timers[t].st \in {"cancelled", "lost", "done"}

\* the timers of the burst whose thread called update_summary
BurstRuns(b) == {t \in BurstMembers(b) : run[t].op = "update"}

\* C1: the notifications of a burst (each less than the debounce delay after
\* the previous one, same path) lead to exactly one call of update_summary,
\* made by the timer of the burst's last notification.
C1_DebounceCollapse ==
  \A b \in TimerIds :
    BurstOver(b) => BurstRuns(b) = {LastOfBurst(b)}

ArmedTimers(path) ==
  {t \in TimerIds : timers[t].st = "armed" /\ timers[t].path = path}

\* C2: at most one armed, un-cancelled timer per path, and no timer runs
\* update_summary once a newer notification for its path has superseded it.
C2_OneTimerPerPath ==
  /\ \A path \in Paths : Cardinality(ArmedTimers(path)) <= 1
  /\ \A t \in TimerIds : ~timers[t].superseded

\* the lines of a text, as a set
LinesOf(text) == {text[i] : i \in 1 .. Len(text)}

\* thread w completed update_summary, having written both stores
Completed(w) ==
  /\ run[w].pc = "done"
  /\ run[w].op = "update"
  /\ run[w].wroteLedger
  /\ run[w].wroteIndex

\* the stores hold what w's run produced
Retained(w) ==
  /\ NewLine(run[w].data) \in LinesOf(ledger.lines)
  /\ hashes.state = "json"
  /\ run[w].file_path \in DOMAIN hashes.map
  /\ hashes.map[run[w].file_path] = run[w].current_hash

\* C3: once runs of update_summary for two different documents have both
\* completed (and no other run is in progress), the ledger holds the record
\* of each and the index the digest of each.
C3_NoLostUpdate ==
  NoneRunning =>
    \A w1, w2 \in Workers :
      (/\ Completed(w1)
       /\ Completed(w2)
       /\ run[w1].file_path # run[w2].file_path)
      => Retained(w1) /\ Retained(w2)

\* the first field of a line: the text before its first '|'
FirstField(line) ==
  LET i == FirstIndexOf(line, "|", 1)
  IN  IF i = 0 THEN line ELSE SubSeq(line, 1, i - 1)

\* the data lines of a table (all but its first line)
DataLines(text) == IF text = <<>> THEN <<>> ELSE Tail(text)

\* how many data lines of the table carry the identifier
CountId(text, id) ==
  Cardinality({i \in 1 .. Len(DataLines(text)) : FirstField(DataLines(text)[i]) = id})

\* C4: the ledger never holds two data lines with the same first field.
C4_UniqueIdentifiers ==
  \A i, j \in 1 .. Len(DataLines(ledger.lines)) :
    i # j => FirstField(DataLines(ledger.lines)[i]) # FirstField(DataLines(ledger.lines)[j])

\* what update_summary read of the ledger, with the header it puts on an
\* empty table
ReadTable(w) == IF run[w].lines = <<>> THEN <<header>> ELSE run[w].lines

\* C5: when update_summary has written the ledger for a document with
\* identifier R, a table that held R has the new record at each position
\* where R stood and every other line as it was; a table that did not hold R
\* is the old table followed by the new record.
C5_UpsertInPlace ==
  \A w \in Workers :
    (run[w].op = "update" /\ run[w].pc = "u_hash") =>
      LET old == ReadTable(w)
          R   == run[w].data.reference
          nl  == NewLine(run[w].data)
      IN  IF CountId(old, R) > 0
            THEN /\ Len(ledger.lines) = Len(old)
                 /\ \A i \in 1 .. Len(old) :
                      ledger.lines[i] =
                        IF i > 1 /\ FirstField(old[i]) = R THEN nl ELSE old[i]
            ELSE ledger.lines = Append(old, nl)

\* update_summary replaced, in place, a changed record whose identifier is
\* a proper prefix of the identifier of a record further down the table
C5_Witness ==
  \E w \in Workers :
    /\ run[w].op = "update" /\ run[w].pc = "u_hash"
    /\ \E i, j \in 2 .. Len(run[w].lines) :
         /\ i < j
         /\ FirstField(run[w].lines[i]) = run[w].data.reference
         /\ run[w].lines[i] # NewLine(run[w].data)
         /\ ledger.lines[i] = NewLine(run[w].data)
         /\ FirstField(run[w].lines[j]) # run[w].data.reference
         /\ StartsWith(FirstField(run[w].lines[j]), run[w].data.reference)

\* a call of update_summary that wrote both stores has returned
UpdateReturned(w) ==
  /\ run[w].op = "update" /\ run[w].pc = "ret"
  /\ run[w].wroteLedger /\ run[w].wroteIndex

\* the call that returned in w repeats the previous call: same path, same
\* bytes, nothing else having written the stores in between
Repeats(w) ==
  /\ UpdateReturned(w)
  /\ last.valid
  /\ last.file_path = run[w].file_path
  /\ last.bytes = run[w].data.bytes

\* C6: a call of update_summary that repeats the previous one leaves the
\* ledger and the index as the previous call left them, with one record for
\* the document.
C6_Idempotent ==
  \A w \in Workers :
    Repeats(w) =>
      /\ ledger.lines = last.ledger
      /\ hashes.map = last.hashes
      /\ CountId(ledger.lines, run[w].data.reference) = 1

\* the documents under the tree that extract
Extractable == {p \in Paths : ~BadBytes(docs[p])}

\* generate_summary returned without having caught an exception
GenerateReturned(w) ==
  run[w].op = "generate" /\ run[w].pc = "ret" /\ ~run[w].error

\* C7: when generate_summary has returned, the ledger holds exactly one
\* record with the identifier of each document under the tree that extracts,
\* and no record with any other identifier.
C7_RebuildComplete ==
  \A w \in Workers :
    GenerateReturned(w) =>
      /\ \A p \in Extractable : CountId(ledger.lines, Reference(p)) = 1
      /\ \A i \in 1 .. Len(DataLines(ledger.lines)) :
           \E p \in Extractable :
             FirstField(DataLines(ledger.lines)[i]) = Reference(p)

\* C8: when generate_summary has returned after a failure, the ledger is
\* either the table it was before the call or the complete new table.
C8_AtomicReplace ==
  \A w \in Workers :
    (run[w].op = "generate" /\ run[w].pc = "ret" /\ run[w].error) =>
      \/ ledger.lines = run[w].lines
      \/ ledger.lines = RebuiltTable(run[w].summary_lines)

\* C9: the digest update_summary stored in the index is the digest of the
\* bytes it extracted the ledger record from.
C9_FingerprintAgrees ==
  \A w \in Workers :
    (run[w].op = "update" /\ run[w].wroteIndex) =>
      run[w].current_hash = Md5(run[w].data.bytes)

\* thread w is in a call of update_summary whose extraction met bytes that
\* are no workbook
ExtractionFailed(w) ==
  /\ run[w].op = "update"
  /\ run[w].pc # "u_extract"
  /\ BadBytes(run[w].data.bytes)

\* C10: a call of update_summary whose extraction fails changes neither the
\* ledger nor the index in any of its steps, and when the timer that made
\* the call ends, the path has no entry in the timer table.
C10_FailureLeavesStores ==
  [][ \A w \in Workers :
        /\ (ExtractionFailed(w)' /\ run'[w] # run[w]) =>
             (ledger' = ledger /\ hashes' = hashes)
        /\ (w \in TimerIds /\ ExtractionFailed(w)
               /\ timers[w].st # "done" /\ timers'[w].st = "done") =>
             run[w].file_path \notin DOMAIN modification_timers' ]_vars

\* a timer's call met a corrupt document that has a record in the ledger,
\* and the timer has ended
C10_Witness ==
  \E t \in TimerIds :
    /\ timers[t].st = "done"
    /\ ExtractionFailed(t)
    /\ run[t].data.bytes = "corrupt"
    /\ CountId(ledger.lines, Reference(run[t].file_path)) = 1
    /\ run[t].file_path \notin DOMAIN modification_timers

\* the table the call in w set out to write
Intended(w) ==
  IF run[w].op = "update" THEN NewLines(run[w].lines, run[w].data)
                          ELSE RebuiltTable(run[w].summary_lines)

\* C11: when a call of update_summary or generate_summary has returned
\* after a failing write, its caller got something else than the None of a
\* successful call, and the ledger is the table as it was before the call or
\* the complete table the call set out to write.
C11_FailureReported ==
  \A w \in Workers :
    (run[w].pc = "ret" /\ run[w].error) =>
      /\ Returned(run[w]) # Returned([run[w] EXCEPT !.error = FALSE])
      /\ \/ ledger.lines = run[w].lines
         \/ ledger.lines = Intended(w)

\* the step is the one in which the call of update_summary in w opens the
\* ledger for writing
OpensLedger(w) ==
  /\ run[w].op = "update"
  /\ run[w].pc = "u_open"
  /\ run'[w].pc = "u_write"

\* the step is the dispatch thread taking a deletion notification
TakesDeletion ==
  /\ disp.pc = "idle"
  /\ run[Disp].pc = "idle"
  /\ run'[Disp].pc # "idle"
  /\ disp'.pc = "busy"

\* C12: when a call of update_summary starts to overwrite the ledger, every
\* record the ledger holds under another identifier is in the table the
\* call writes; and a deletion notification starts generate_summary.
C12_OnlyRebuildRemoves ==
  [][ /\ \A w \in Workers :
           OpensLedger(w) =>
             \A i \in 1 .. Len(DataLines(ledger.lines)) :
               FirstField(DataLines(ledger.lines)[i]) # run[w].data.reference =>
                 DataLines(ledger.lines)[i]
                   \in LinesOf(NewLines(run[w].lines, run[w].data))
      /\ TakesDeletion => run'[Disp].op = "generate" ]_vars

\* the API's call and on_created's call of update_summary for one document
\* have both written the stores and returned
BothReturned ==
  /\ UpdateReturned(Api)
  /\ UpdateReturned(Disp)
  /\ run[Api].file_path = run[Disp].file_path

\* the records either call read that belong to other documents still in
\* the tree
OtherRecordsRead ==
  {line \in LinesOf(DataLines(run[Api].lines)) \cup LinesOf(DataLines(run[Disp].lines)) :
     /\ FirstField(line) # run[Api].data.reference
     /\ \E q \in Extractable : Reference(q) = FirstField(line)}

\* C13: when the API's call of update_summary for a new document and
\* on_created's call for the same document have both returned, the ledger
\* holds one record for the document, the record a single call writes, and
\* still holds every record of another document that either call read.
C13_RedundantCreation ==
  BothReturned =>
    /\ CountId(ledger.lines, run[Api].data.reference) = 1
    /\ NewLine(run[Api].data) \in LinesOf(ledger.lines)
    /\ OtherRecordsRead \subseteq LinesOf(ledger.lines)

\* C14: whenever the ledger file is looked at, its first line is the header
\* and no other line is.
C14_HeaderFirst ==
  /\ ledger.lines # <<>>
  /\ ledger.lines[1] = header
  /\ \A i \in 2 .. Len(ledger.lines) : ledger.lines[i] # header

\* the documents under the tree that do not extract
Failing == {p \in Paths : docs[p] # Absent /\ BadBytes(docs[p])}

\* C15: when generate_summary has returned, a document that does not
\* extract has no entry in the index and has contributed no line to the
\* ledger (no line carries its identifier, unless an extracting document has
\* the same identifier), while every extracting document has its record and
\* its entry.
C15_RebuildOmitsFailing ==
  \A w \in Workers :
    GenerateReturned(w) =>
      /\ \A p \in Failing :
           /\ p \notin DOMAIN hashes.map
           /\ (\A q \in Extractable : Reference(q) # Reference(p)) =>
                CountId(ledger.lines, Reference(p)) = 0
      /\ Len(DataLines(ledger.lines)) = Cardinality(Extractable)
      /\ \A p \in Extractable :
           /\ NewLine(extract_excel_data(p, docs[p])) \in LinesOf(ledger.lines)
           /\ p \in DOMAIN hashes.map

\* generate_summary dropped the record of a document that no longer
\* extracts and kept the record of another document
C15_Witness ==
  \E w \in Workers :
    /\ GenerateReturned(w)
    /\ \E p \in Failing :
         /\ CountId(run[w].lines, Reference(p)) = 1
         /\ CountId(ledger.lines, Reference(p)) = 0
         /\ p \notin DOMAIN hashes.map
    /\ \E q \in Extractable : CountId(ledger.lines, Reference(q)) = 1

\* what is shown at a cell: the value of the top-left cell of the merged
\* range the cell lies in, the cell's own value when it lies in none
Shown(ws, cell) ==
  IF \A r \in ws.merged : ~InRange(cell, r)
    THEN ws.cells[cell]
    ELSE ws.cells[LET r == CHOOSE r \in ws.merged : InRange(cell, r)
                  IN  <<r.min_col, r.min_row>>]

Empty(ws, cell) == ws.cells[cell] = None \/ ws.cells[cell] = ""

\* C16: the payment status extracted is what is shown at H59 when J59 is
\* not empty, else at D59 when G59 is not empty, else at A59 when C59 is not
\* empty, and "PAS ENCORE" when the three helper cells are empty.
C16_PaymentPriority ==
  sheet.got.field = "etat_payment" =>
    sheet.got.value =
      IF ~Empty(sheet.ws, J59) THEN Shown(sheet.ws, H59)
      ELSE IF ~Empty(sheet.ws, G59) THEN Shown(sheet.ws, D59)
      ELSE IF ~Empty(sheet.ws, C59) THEN Shown(sheet.ws, A59)
      ELSE "PAS ENCORE"

\* the status was extracted with the first and the third helper cell set
\* and the second empty
C16_Witness ==
  /\ sheet.got.field = "etat_payment"
  /\ ~Empty(sheet.ws, C59) /\ Empty(sheet.ws, G59) /\ ~Empty(sheet.ws, J59)
  /\ sheet.got.value = "SOLDE"

\* the file name of a path without its extension: the text after the last
\* '/' and before the last '.'
StripExtension(path) ==
  LET name == SubSeq(path, LastIndexOf(path, "/", Len(path)) + 1, Len(path))
      dot  == LastIndexOf(name, ".", Len(name))
  IN  IF dot = 0 THEN name ELSE SubSeq(name, 1, dot - 1)

\* C17: the identifier extracted for a path is its file name without the
\* extension.
C17_IdentifierIsFileName ==
  sheet.got.field = "reference" =>
    sheet.got.reference = StripExtension(sheet.got.cell)

\* C18: a value read from the worksheet at an address inside a merged range
\* is the value of the range's top-left cell; a value read at an address in
\* no merged range is the cell's own value.
C18_MergedRead ==
  sheet.got.field \in {"lieu", "number", "helper", "content"} =>
    sheet.got.value = Shown(sheet.ws, sheet.got.cell)

\* notification t has been delivered to on_modified
Delivered(t) == timers[t].st # "unused"

\* a call of update_summary for the path of notification t started after
\* the notification was delivered, and has completed
Served(t) ==
  /\ timers[t].served # 0
  /\ run[timers[t].served].pc = "done"

\* C19: every modification notification delivered is followed by a
\* completed call of update_summary for its path that started after the
\* notification was delivered.
C19_NoModificationLost == \A t \in TimerIds : Delivered(t) ~> Served(t)

\* the rebuild in the dispatch thread and the API's call of update_summary
\* have both returned
RebuildAndUpdateReturned ==
  /\ GenerateReturned(Disp)
  /\ UpdateReturned(Api)

\* C20: when a rebuild and a call of update_summary for another document
\* have both returned, the ledger holds no record of a document that is gone
\* and that the rebuild left out, and holds every record the rebuild wrote
\* for a document other than the updated one.
C20_RebuildNotUndone ==
  RebuildAndUpdateReturned =>
    /\ \A p \in Paths :
         (/\ docs[p] = Absent
          /\ Reference(p) # run[Api].data.reference
          /\ CountId(RebuiltTable(run[Disp].summary_lines), Reference(p)) = 0)
           => CountId(ledger.lines, Reference(p)) = 0
    /\ \A i \in 1 .. Len(run[Disp].summary_lines) :
         FirstField(run[Disp].summary_lines[i]) # run[Api].data.reference =>
           run[Disp].summary_lines[i] \in LinesOf(ledger.lines)

\* the timers of a path that are armed and have not finished their
\* processing
Pending(path) ==
  {t \in TimerIds : timers[t].path = path /\ timers[t].st \in {"armed", "fired", "running"}}

\* C21: whenever on_modified is not in the middle of a notification, the
\* debounce table has an entry for a path exactly when a timer for the path
\* is armed and has not finished its processing.
C21_TableTracksPending ==
  disp.pc = "idle" =>
    \A path \in Paths : (path \in DOMAIN modification_timers) <=> (Pending(path) # {})

\* the step belongs to the handling of a creation notification: on_created
\* is entered, its sleep ends, or its call of update_summary moves
CreationStep ==
  \/ disp.pc = "idle" /\ disp'.pc = "c_sleep"
  \/ disp.pc = "c_sleep" /\ disp'.pc = "busy"
  \/ run'[Disp] # run[Disp]

\* C22: the handling of a creation notification starts update_summary once,
\* when the settle delay has passed, and changes neither the debounce table
\* nor any timer; a modification notification that arrived during the delay
\* does not end the call (a call in the dispatch thread ends only by
\* returning).
C22_CreationBypassesDebounce ==
  [][ /\ CreationStep =>
           (modification_timers' = modification_timers /\ timers' = timers)
      /\ (run[Disp].pc = "idle" /\ run'[Disp].pc # "idle") =>
           /\ disp.pc = "c_sleep"
           /\ disp.rem = 0
           /\ run'[Disp].op = "update"
           /\ run'[Disp].file_path = disp.path
      /\ (disp.pc = "c_sleep" /\ disp'.pc = "c_sleep") =>
           disp'.rem + 1 >= disp.rem
      /\ (run[Disp].pc # "idle" /\ run'[Disp].pc = "idle") =>
           run[Disp].pc = "ret" ]_vars

\* a modification notification arrived while on_created slept; the
\* creation's call has written the document's record and returned, and the
\* notification's own timer is armed
C22_Witness ==
  /\ budget.ops = CreateOps - 2
  /\ queue = <<>>
  /\ disp.pc = "idle"
  /\ CountId(ledger.lines, Reference(PathA)) = 1
  /\ \E t \in TimerIds : timers[t].st = "armed" /\ timers[t].path = PathA
  /\ \A t \in TimerIds : timers[t].st \in {"armed", "unused"}
  /\ PathA \in DOMAIN modification_timers

\* the paths of the index, in the order of the walk
IndexedInOrder == SelectSeq(WalkOrder, LAMBDA p : p \in DOMAIN hashes.map)

\* C23: when generate_summary has returned, the index is a mapping whose
\* paths are exactly the documents of the tree that extract, each with the
\* digest of its bytes, and the data lines of the ledger are, one for one and
\* in the order of the walk, the records of these paths.
C23_IndexReplacedWholesale ==
  \A w \in Workers :
    GenerateReturned(w) =>
      /\ hashes.state = "json"
      /\ DOMAIN hashes.map = Extractable
      /\ \A p \in DOMAIN hashes.map : hashes.map[p] = Md5(docs[p])
      /\ Len(DataLines(ledger.lines)) = Len(IndexedInOrder)
      /\ \A i \in 1 .. Len(IndexedInOrder) :
           DataLines(ledger.lines)[i] =
             NewLine(extract_excel_data(IndexedInOrder[i], docs[IndexedInOrder[i]]))

\* generate_summary returned after a document that had a record (no other
\* document has its identifier) was deleted: it is not in the index, which
\* holds another document
C23_Witness ==
  \E w \in Workers :
    /\ GenerateReturned(w)
    /\ \E p \in Paths :
         /\ docs[p] = Absent
         /\ run[w].lines # <<>>
         /\ p \notin DOMAIN hashes.map
         /\ \E i \in 1 .. Len(run[w].lines) : FirstField(run[w].lines[i]) = Reference(p)
         /\ \A q \in Paths \ {p} : docs[q] # Absent => Reference(q) # Reference(p)
    /\ DOMAIN hashes.map # {}

\* the notification is for a document: its path is no directory and ends
\* with the extension
ForDocument(event) ==
  /\ ~event.is_directory
  /\ Len(event.src_path) >= 2
  /\ event.src_path[Len(event.src_path) - 1] = "."
  /\ event.src_path[Len(event.src_path)] = "xlsx"

\* where the handling of the notification leads: nowhere for a notification
\* that is not for a document; to the wait before update_summary for a
\* creation, to a new timer for the path for a modification, to
\* generate_summary for a deletion
Routed(event) ==
  IF ~ForDocument(event)
    THEN UNCHANGED <<docs, ledger, hashes, modification_timers, timers, disp, run>>
    ELSE /\ UNCHANGED <<docs, ledger, hashes, modification_timers>>
         /\ event.kind = "created" =>
              /\ disp'.pc = "c_sleep" /\ disp'.path = event.src_path
              /\ UNCHANGED <<timers, run>>
         /\ event.kind = "modified" =>
              /\ disp'.pc \in {"m_cancel", "m_arm"} /\ disp'.path = event.src_path
              /\ \E t \in TimerIds :
                   /\ timers[t].st = "unused"
                   /\ timers'[t].st = "new" /\ timers'[t].path = event.src_path
                   /\ \A u \in TimerIds \ {t} : timers'[u] = timers[u]
              /\ UNCHANGED run
         /\ event.kind = "deleted" =>
              /\ run'[Disp].op = "generate" /\ run'[Disp].pc # "idle"
              /\ UNCHANGED timers

\* C24: handling a notification that is for a directory or for a path
\* without the extension changes nothing; handling one for a document leads
\* to update_summary for its path (creation: after the wait; modification:
\* through a timer) or to generate_summary (deletion); a timer, a call of
\* update_summary and a call of generate_summary come from nothing else.
C24_EventFiltering ==
  [][ /\ \A event \in Events : Handle(event) => Routed(event)
      /\ \A t \in TimerIds :
           (timers[t].st = "unused" /\ timers'[t].st # "unused") =>
             \E event \in Events :
               /\ ForDocument(event) /\ event.kind = "modified"
               /\ Handle(event) /\ timers'[t].path = event.src_path
      /\ (run[Disp].op # "generate" /\ run'[Disp].op = "generate") =>
           \E event \in Events :
             ForDocument(event) /\ event.kind = "deleted" /\ Handle(event)
      /\ \A w \in Workers :
           (run[w].op # "update" /\ run'[w].op = "update") =>
             /\ ForDocument([kind |-> "modified", src_path |-> run'[w].file_path,
                             is_directory |-> FALSE])
             /\ \/ w = Disp /\ disp.pc = "c_sleep" /\ disp.path = run'[w].file_path
                \/ w \in TimerIds /\ timers[w].path = run'[w].file_path ]_vars

\* a first notification that is not for a document was handled and has
\* changed nothing, and a second one, for the document, is being handled
C24_Witness ==
  /\ budget.ops = FilterOps - 2
  /\ disp.pc = "c_sleep"
  /\ disp.rem = SettleDelay
  /\ ledger.lines = <<header>>
  /\ hashes.state = "absent"
  /\ modification_timers = NoMap
  /\ \A t \in TimerIds : timers[t] = NoTimer
  /\ \A w \in Workers : run[w] = NoRun

\* the first line of the ledger file is the header
HeaderFirst(l) == l.exists /\ l.lines # <<>> /\ Head(l.lines) = header

\* C25: when initialize_summary_file returns, the ledger file exists and its
\* first line is the header, and a file that had the header before is as it
\* was.
C25_StartupReconciles ==
  [][ (disp.pc = "main" /\ disp'.pc # "main") =>
        /\ HeaderFirst(ledger')
        /\ HeaderFirst(ledger) => ledger' = ledger ]_vars

\* C26: the step in which update_summary for a path writes the index leaves
\* a mapping that is the index as it was just before, with the entry of this
\* path set to the digest and every other entry as it was; an index that
\* was absent or did not parse becomes a mapping with this path only.
C26_IndexFrame ==
  [][ \A w \in Workers :
        (run[w].op = "update" /\ run[w].pc = "u_hwrite" /\ run'[w].pc = "ret") =>
          /\ hashes'.state = "json"
          /\ hashes'.map =
               SetEntry(IF hashes.state = "json" THEN hashes.map ELSE NoMap,
                        run[w].file_path, run[w].current_hash) ]_vars

====
